---- MODULE Spec2Model ----
(***************************************************************************)
(* FromJS: the backend's endpoints (packages/backend/backend.ts), the      *)
(* tracked string handlers (src/tracing/FromJSString.js) and the patches   *)
(* of enableTracing / disableTracing.                                      *)
(*                                                                         *)
(* Spec      : /storeLogs, the log store's write completion and /traverse  *)
(* LoadSpec  : /storeLogs, the log store's write completion and /loadLog   *)
(* InspectSpec: /storeLogs and the UI's POST /inspectDOM and POST /inspect  *)
(* TraceSpec : enableTracing, disableTracing and calls of the operations   *)
(*             they patch                                                  *)
(* StrSpec   : the replace, slice, substr, split and match handlers of a   *)
(*             tracked string and the construction of tracked strings      *)
(***************************************************************************)
EXTENDS Integers, Sequences, FiniteSets, TLC

VARIABLES
    \* ---- backend ----
    stored,             \* records visible in the log store
    writing,            \* batches handed to logServer.storeLogs, not yet written
    acked,              \* ids of the batches answered with {ok: true}
    proxyInterface,     \* "undefined" until createProxy resolves, then "ready"
    evalScripts,        \* eval scripts registered with the proxy
    storeLogsRes,       \* outcome of the last /storeLogs request
    pc,                 \* position of each /traverse request
    logId,              \* req.body.logId of each /traverse request
    previousAttempts,   \* argument of the running tryTraverse
    checks,             \* number of hasLog callbacks the request has run
    waited,             \* milliseconds the request has spent in setTimeout
    cur,                \* record the traversal is about to fetch
    steps,              \* steps the traversal has resolved so far
    travOk,             \* whether the awaited traverse() resolved (TRUE) or rejected
    status,             \* res.status of each /traverse request
    responses,          \* payloads passed to res.end, in call order
    loadPc,             \* position of each /loadLog request
    loadId,             \* req.body.id of each /loadLog request
    loadAfterAck,       \* whether the id was acknowledged when the request arrived
    loadRes,            \* what the /loadLog request answered
    \* ---- UI endpoints ----
    domToInspect,       \* the selected DOM, "null" until one is posted
    logToInspect,       \* the selected log id, 0 (null) until one is posted
    isInspectingDemoApp, \* whether the last selection came from the start page
    broadcasts,         \* number of messages handed to broadcast()
    rejected,           \* whether verifyToken threw in the last request it checked
    \* ---- tracing patches ----
    tracingEnabled,     \* the module's tracingEnabled flag
    installed,          \* per operation, the wrappers a call passes through
    last,               \* the last call made and the origins it recorded
    \* ---- tracked strings ----
    call,               \* the handler call under way
    result,             \* what the handler returned
    matchLoop           \* lastIndex and matches of the match handler's loop

backendVars == <<stored, writing, acked, proxyInterface, evalScripts, storeLogsRes,
                 pc, logId, previousAttempts, checks, waited, cur, steps, travOk,
                 status, responses>>
loadVars == <<loadPc, loadId, loadAfterAck, loadRes>>
uiVars == <<domToInspect, logToInspect, isInspectingDemoApp, broadcasts>>
strVars == <<call, result, matchLoop>>
traceVars == <<tracingEnabled, installed, last>>
vars == <<backendVars, loadVars, uiVars, rejected, traceVars, strVars>>

(***************************************************************************)
(* Bounds                                                                  *)
(***************************************************************************)
MaxId == 2
Requests == {"r1", "r2"}
Loads == {"q1", "q2"}
Ids == 1..MaxId

(***************************************************************************)
(* Log records.  A record names the record its value came from (0: none, a *)
(* root); origins are created after their inputs, so input < id.           *)
(***************************************************************************)
Records == {rec \in [id : Ids, input : 0..MaxId] : rec.input < rec.id}

Batches == {b \in SUBSET Records : b # {} /\ \A x, y \in b : x.id = y.id => x = y}

IdsOf(b) == {rec.id : rec \in b}

Sent == IdsOf(stored) \cup UNION {IdsOf(b) : b \in writing}

hasLog(id) == id \in IdsOf(stored)

NotFound == [id |-> 0, input |-> 0]

loadLog(id) == IF hasLog(id) THEN CHOOSE rec \in stored : rec.id = id ELSE NotFound

(***************************************************************************)
(* Payloads of res.end                                                     *)
(***************************************************************************)
Payload(err, hasSteps, s) == [err |-> err, hasSteps |-> hasSteps, steps |-> s]

ErrStillSaving == Payload("Log not found - might still be saving data", FALSE, <<>>)

\* the catch block answering with the text of the poll's error
ErrNotInBackendSameText == Payload("Log not found - might still be saving data", FALSE, <<>>)

ErrNotInBackend == Payload("Log not found in backend", FALSE, <<>>)

StepsPayload(hasSteps, s) == Payload("", hasSteps, s)

timeout == 250

maxTimeElapsed == 2000

loadLogDelay == 500

(***************************************************************************)
(* Init                                                                    *)
(***************************************************************************)
BackendInit ==
    /\ stored = {}
    /\ writing = {}
    /\ acked = {}
    /\ proxyInterface = "undefined"
    /\ evalScripts = {}
    /\ storeLogsRes = "none"
    /\ pc = [r \in Requests |-> "idle"]
    /\ logId = [r \in Requests |-> 0]
    /\ previousAttempts = [r \in Requests |-> 0]
    /\ checks = [r \in Requests |-> 0]
    /\ waited = [r \in Requests |-> 0]
    /\ cur = [r \in Requests |-> 0]
    /\ steps = [r \in Requests |-> <<>>]
    /\ travOk = [r \in Requests |-> TRUE]
    /\ status = [r \in Requests |-> 200]
    /\ responses = [r \in Requests |-> <<>>]

LoadInit ==
    /\ loadPc = [q \in Loads |-> "idle"]
    /\ loadId = [q \in Loads |-> 0]
    /\ loadAfterAck = [q \in Loads |-> FALSE]
    /\ loadRes = [q \in Loads |-> NotFound]

UiInit ==
    /\ domToInspect = "null"
    /\ logToInspect = 0
    /\ isInspectingDemoApp = TRUE
    /\ broadcasts = 0
    /\ rejected = FALSE


(***************************************************************************)
(* createProxy(...).then: the proxy interface becomes available.           *)
(***************************************************************************)
ProxyCreated ==
    /\ proxyInterface = "undefined"
    /\ proxyInterface' = "ready"
    /\ UNCHANGED <<stored, writing, acked, evalScripts, storeLogsRes,
                   pc, logId, previousAttempts, checks, waited, cur, steps, travOk,
                   status, responses, loadVars, uiVars, rejected, strVars, traceVars>>

(***************************************************************************)
(* POST /storeLogs.  verifyToken throws on a wrong token, before anything  *)
(* else.  logServer.storeLogs starts the write and returns; getProxy() is  *)
(* undefined until createProxy resolved, so registering an eval script     *)
(* before that throws, after the write was started and before res.end.     *)
(***************************************************************************)
StoreLogs(tokenOk, logs, scripts) ==
    /\ IdsOf(logs) \cap Sent = {}
    /\ rejected' = ~tokenOk
    /\ IF ~tokenOk
       THEN /\ storeLogsRes' = "error"
            /\ UNCHANGED <<writing, evalScripts, acked>>
       ELSE /\ writing' = writing \cup {logs}
            /\ IF scripts # {} /\ proxyInterface = "undefined"
               THEN /\ storeLogsRes' = "error"
                    /\ UNCHANGED <<evalScripts, acked>>
               ELSE /\ evalScripts' = evalScripts \cup scripts
                    /\ acked' = acked \cup IdsOf(logs)
                    /\ storeLogsRes' = "ok"
    /\ UNCHANGED <<stored, proxyInterface,
                   pc, logId, previousAttempts, checks, waited, cur, steps, travOk,
                   status, responses, loadVars, uiVars, strVars, traceVars>>

(***************************************************************************)
(* The UI's endpoints.  POST /inspectDOM selects a DOM and POST /inspect a *)
(* log id; both tell the WebSocket clients.  verifyToken throws on a wrong *)
(* token and the handler's remaining statements do not run.                *)
(***************************************************************************)
Doms == {"dom1", "dom2"}

MaxBroadcasts == 2

\* broadcast(wss, data): one message handed to the open clients
broadcast == broadcasts' = broadcasts + 1

\* setIsInspectingDemoApp(req): fromDemo is whether the referer is the
\* start page
setIsInspectingDemoApp(fromDemo) == isInspectingDemoApp' = fromDemo

\* POST /inspectDOM
InspectDOM(tokenOk, dom, fromDemo) ==
    /\ tokenOk => broadcasts < MaxBroadcasts
    /\ rejected' = ~tokenOk
    /\ IF ~tokenOk
       THEN UNCHANGED uiVars
       ELSE /\ setIsInspectingDemoApp(fromDemo)
            /\ domToInspect' = dom
            /\ broadcast
            /\ UNCHANGED logToInspect
    /\ UNCHANGED <<backendVars, loadVars, strVars, traceVars>>

\* POST /inspect with the log id selected before the token is verified
InspectUnverified(tokenOk, id, fromDemo) ==
    /\ tokenOk => broadcasts < MaxBroadcasts
    /\ rejected' = ~tokenOk
    /\ logToInspect' = id
    /\ IF ~tokenOk
       THEN UNCHANGED <<domToInspect, isInspectingDemoApp, broadcasts>>
       ELSE /\ setIsInspectingDemoApp(fromDemo)
            /\ broadcast
            /\ UNCHANGED domToInspect
    /\ UNCHANGED <<backendVars, loadVars, strVars, traceVars>>

\* POST /inspect
Inspect(tokenOk, id, fromDemo) ==
    /\ tokenOk => broadcasts < MaxBroadcasts
    /\ rejected' = ~tokenOk
    /\ IF ~tokenOk
       THEN UNCHANGED uiVars
       ELSE /\ logToInspect' = id
            /\ setIsInspectingDemoApp(fromDemo)
            /\ broadcast
            /\ UNCHANGED domToInspect
    /\ UNCHANGED <<backendVars, loadVars, strVars, traceVars>>

(***************************************************************************)
(* enableTracing / disableTracing.  enableTracing replaces ten operations  *)
(* by wrappers that record an origin and call the saved native operation;  *)
(* the natives are saved when the module loads, except removeAttribute's,  *)
(* which enableTracing reads from Element.prototype when it runs.          *)
(* disableTracing assigns the saved natives back.                          *)
(***************************************************************************)
Ops == {"createElement", "appendChild", "setAttribute", "removeAttribute",
        "className", "JSON.parse", "innerHTML", "localStorage.getItem",
        "exec", "Function"}

MaxLayers == 3

AttrNames == {"id", "title"}

\* the arguments of a call that decide what it records
ArgsOf(op) ==
    CASE op \in {"setAttribute", "removeAttribute"} -> AttrNames
      [] op = "JSON.parse" -> {"{}", "{a: s}", "{a: s, b: s}"}
      [] op = "localStorage.getItem" -> {"missing", "present"}
      [] OTHER -> {""}

AttrKey(attrName) == IF attrName = "id" THEN "attribute_id" ELSE "attribute_title"

\* the number of string-valued keys of the parsed value
StringKeys(str) == CASE str = "{}" -> 0 [] str = "{a: s}" -> 1 [] OTHER -> 2

RECURSIVE Repeat(_, _)
Repeat(x, n) == IF n = 0 THEN <<>> ELSE <<x>> \o Repeat(x, n - 1)

NoOrigins == <<>>

\* what one wrapper of enableTracing records before it calls the operation
\* it wraps
wrapperOrigins(op, arg) ==
    CASE op = "createElement" ->
            << [key |-> "openingTagStart", action |-> "createElement"],
               [key |-> "openingTagEnd", action |-> "createElement"] >>
      [] op = "appendChild" -> << [key |-> "appendChild", action |-> "appendChild"] >>
      [] op = "setAttribute" -> << [key |-> AttrKey(arg), action |-> "setAttribute"] >>
      [] op = "removeAttribute" -> << [key |-> AttrKey(arg), action |-> "removeAttribute"] >>
      [] op = "className" -> << [key |-> "attribute_class", action |-> "set className"] >>
      [] op = "JSON.parse" -> Repeat([key |-> "value", action |-> "JSON.parse"], StringKeys(arg))
      [] op = "innerHTML" -> << [key |-> "value", action |-> "Read Element innerHTML"] >>
      [] op = "localStorage.getItem" ->
            IF arg = "present"
            THEN << [key |-> "value", action |-> "localStorage.getItem"] >>
            ELSE NoOrigins
      [] op = "exec" -> NoOrigins
      [] OTHER -> << [key |-> "file", action |-> "Dynamic Script"] >>

RECURSIVE Layers(_, _, _)
Layers(op, arg, n) ==
    IF n = 0 THEN NoOrigins ELSE wrapperOrigins(op, arg) \o Layers(op, arg, n - 1)

\* the origins one call of op records with the patches now installed; the
\* Function wrapper creates and appends a script element through
\* document.createElement and appendChild as they are now
callOrigins(op, arg) ==
    IF op = "Function" /\ installed[op] > 0
    THEN Layers("createElement", "", installed["createElement"])
         \o Layers("appendChild", "", installed["appendChild"])
         \o wrapperOrigins(op, arg)
    ELSE Layers(op, arg, installed[op])

NoLast == [op |-> "none", arg |-> "", recorded |-> NoOrigins]

TraceInit ==
    /\ tracingEnabled = FALSE
    /\ installed = [op \in Ops |-> 0]
    /\ last = NoLast

enableTracing ==
    /\ ~tracingEnabled => installed["removeAttribute"] < MaxLayers
    /\ last' = [op |-> "enableTracing", arg |-> "", recorded |-> NoOrigins]
    /\ IF tracingEnabled
       THEN UNCHANGED <<tracingEnabled, installed>>
       ELSE /\ tracingEnabled' = TRUE
            /\ installed' = [op \in Ops |->
                                IF op = "removeAttribute" THEN installed[op] + 1 ELSE 1]
    /\ UNCHANGED <<backendVars, loadVars, uiVars, rejected, strVars>>

disableTracing ==
    /\ last' = [op |-> "disableTracing", arg |-> "", recorded |-> NoOrigins]
    /\ IF ~tracingEnabled
       THEN UNCHANGED <<tracingEnabled, installed>>
       ELSE /\ installed' = [op \in Ops |->
                                IF op = "removeAttribute" THEN installed[op] ELSE 0]
            /\ tracingEnabled' = FALSE
    /\ UNCHANGED <<backendVars, loadVars, uiVars, rejected, strVars>>

\* the page calls one of the operations
CallOp(op, arg) ==
    /\ last' = [op |-> op, arg |-> arg, recorded |-> callOrigins(op, arg)]
    /\ UNCHANGED <<tracingEnabled, installed>>
    /\ UNCHANGED <<backendVars, loadVars, uiVars, rejected, strVars>>

(***************************************************************************)
(* The log store finishes writing a batch: its records become visible.     *)
(***************************************************************************)
WriteComplete(b) ==
    /\ b \in writing
    /\ writing' = writing \ {b}
    /\ stored' = stored \cup b
    /\ UNCHANGED <<acked, proxyInterface, evalScripts, storeLogsRes,
                   pc, logId, previousAttempts, checks, waited, cur, steps, travOk,
                   status, responses, loadVars, uiVars, rejected, strVars, traceVars>>

(***************************************************************************)
(* POST /traverse                                                          *)
(***************************************************************************)
\* the handler runs tryTraverse(): logServer.hasLog is issued
Traverse(r, id) ==
    /\ pc[r] = "idle"
    /\ logId' = [logId EXCEPT ![r] = id]
    /\ previousAttempts' = [previousAttempts EXCEPT ![r] = 0]
    /\ pc' = [pc EXCEPT ![r] = "hasLog"]
    /\ UNCHANGED <<stored, writing, acked, proxyInterface, evalScripts, storeLogsRes,
                   checks, waited, cur, steps, travOk, status, responses,
                   loadVars, uiVars, rejected, strVars, traceVars>>

\* the elapsed time counted one wait short
timeElapsedOneShort(r) == timeout * (previousAttempts[r] - 1)

timeElapsed(r) == timeout * previousAttempts[r]

\* the callback of logServer.hasLog going on to finishRequest whatever
\* hasLog reported
tryTraverseUnchecked(r) ==
    /\ pc[r] = "hasLog"
    /\ checks' = [checks EXCEPT ![r] = @ + 1]
    /\ pc' = [pc EXCEPT ![r] = "traverse"]
    /\ cur' = [cur EXCEPT ![r] = logId[r]]
    /\ steps' = [steps EXCEPT ![r] = <<>>]
    /\ UNCHANGED <<stored, writing, acked, proxyInterface, evalScripts, storeLogsRes,
                   logId, previousAttempts, waited, travOk, status, responses,
                   loadVars, uiVars, rejected, strVars, traceVars>>

\* the callback of logServer.hasLog
tryTraverse(r) ==
    /\ pc[r] = "hasLog"
    /\ checks' = [checks EXCEPT ![r] = @ + 1]
    /\ IF hasLog(logId[r])
       THEN \* finishRequest() runs up to its await
            /\ pc' = [pc EXCEPT ![r] = "traverse"]
            /\ cur' = [cur EXCEPT ![r] = logId[r]]
            /\ steps' = [steps EXCEPT ![r] = <<>>]
            /\ UNCHANGED <<status, responses>>
       ELSE IF timeElapsed(r) > maxTimeElapsed
            THEN /\ status' = [status EXCEPT ![r] = 500]
                 /\ responses' = [responses EXCEPT ![r] = Append(@, ErrStillSaving)]
                 /\ pc' = [pc EXCEPT ![r] = "done"]
                 /\ UNCHANGED <<cur, steps>>
            ELSE /\ pc' = [pc EXCEPT ![r] = "timer"]
                 /\ UNCHANGED <<cur, steps, status, responses>>
    /\ UNCHANGED <<stored, writing, acked, proxyInterface, evalScripts, storeLogsRes,
                   logId, previousAttempts, waited, travOk, loadVars, uiVars, rejected, strVars, traceVars>>

\* the setTimeout callback with the attempt counter kept in one variable of
\* the handler's module, shared by the requests
TimerFiresShared(r) ==
    /\ pc[r] = "timer"
    /\ waited' = [waited EXCEPT ![r] = @ + timeout]
    /\ previousAttempts' = [q \in Requests |-> previousAttempts[q] + 1]
    /\ pc' = [pc EXCEPT ![r] = "hasLog"]
    /\ UNCHANGED <<stored, writing, acked, proxyInterface, evalScripts, storeLogsRes,
                   logId, checks, cur, steps, travOk, status, responses,
                   loadVars, uiVars, rejected, strVars, traceVars>>

\* the setTimeout callback: tryTraverse(previousAttempts + 1)
TimerFires(r) ==
    /\ pc[r] = "timer"
    /\ waited' = [waited EXCEPT ![r] = @ + timeout]
    /\ previousAttempts' = [previousAttempts EXCEPT ![r] = @ + 1]
    /\ pc' = [pc EXCEPT ![r] = "hasLog"]
    /\ UNCHANGED <<stored, writing, acked, proxyInterface, evalScripts, storeLogsRes,
                   logId, checks, cur, steps, travOk, status, responses,
                   loadVars, uiVars, rejected, strVars, traceVars>>

\* a lookup of traverse() that emits the step and stays on the same record
traverseNoAdvance(r) ==
    /\ pc[r] = "traverse"
    /\ IF ~hasLog(cur[r])
       THEN /\ travOk' = [travOk EXCEPT ![r] = FALSE]
            /\ pc' = [pc EXCEPT ![r] = "traversed"]
            /\ UNCHANGED <<cur, steps>>
       ELSE /\ steps' = [steps EXCEPT ![r] = Append(@, [operationLog |-> cur[r]])]
            /\ IF loadLog(cur[r]).input = 0
               THEN /\ travOk' = [travOk EXCEPT ![r] = TRUE]
                    /\ pc' = [pc EXCEPT ![r] = "traversed"]
                    /\ UNCHANGED cur
               ELSE UNCHANGED <<cur, travOk, pc>>
    /\ UNCHANGED <<stored, writing, acked, proxyInterface, evalScripts, storeLogsRes,
                   logId, previousAttempts, checks, waited, status, responses,
                   loadVars, uiVars, rejected, strVars, traceVars>>

\* one point lookup of traverse(): fetch the record, emit its step, go on
\* with its input; a missing record aborts the walk, a root ends it
traverse(r) ==
    /\ pc[r] = "traverse"
    /\ IF ~hasLog(cur[r])
       THEN /\ travOk' = [travOk EXCEPT ![r] = FALSE]
            /\ pc' = [pc EXCEPT ![r] = "traversed"]
            /\ UNCHANGED <<cur, steps>>
       ELSE /\ steps' = [steps EXCEPT ![r] = Append(@, [operationLog |-> cur[r]])]
            /\ IF loadLog(cur[r]).input = 0
               THEN /\ travOk' = [travOk EXCEPT ![r] = TRUE]
                    /\ pc' = [pc EXCEPT ![r] = "traversed"]
                    /\ UNCHANGED cur
               ELSE /\ cur' = [cur EXCEPT ![r] = loadLog(cur[r]).input]
                    /\ UNCHANGED <<travOk, pc>>
    /\ UNCHANGED <<stored, writing, acked, proxyInterface, evalScripts, storeLogsRes,
                   logId, previousAttempts, checks, waited, status, responses,
                   loadVars, uiVars, rejected, strVars, traceVars>>

\* finishRequest after its await: the catch block answers and falls through
\* to the res.end of the steps, with steps still undefined
finishRequest(r) ==
    /\ pc[r] = "traversed"
    /\ IF travOk[r]
       THEN /\ responses' = [responses EXCEPT ![r] = Append(@, StepsPayload(TRUE, steps[r]))]
            /\ UNCHANGED status
       ELSE /\ status' = [status EXCEPT ![r] = 500]
            /\ responses' = [responses EXCEPT ![r] =
                                @ \o <<ErrNotInBackend, StepsPayload(FALSE, <<>>)>>]
    /\ pc' = [pc EXCEPT ![r] = "done"]
    /\ UNCHANGED <<stored, writing, acked, proxyInterface, evalScripts, storeLogsRes,
                   logId, previousAttempts, checks, waited, cur, steps, travOk,
                   loadVars, uiVars, rejected, strVars, traceVars>>

(***************************************************************************)
(* POST /loadLog: wait 500 ms, then look the record up and answer with it. *)
(***************************************************************************)
LoadLogRequest(q, id) ==
    /\ loadPc[q] = "idle"
    /\ loadPc' = [loadPc EXCEPT ![q] = "timer"]
    /\ loadId' = [loadId EXCEPT ![q] = id]
    /\ loadAfterAck' = [loadAfterAck EXCEPT ![q] = id \in acked]
    /\ UNCHANGED <<backendVars, loadRes, uiVars, rejected, strVars, traceVars>>

LoadLogTimer(q) ==
    /\ loadPc[q] = "timer"
    /\ loadPc' = [loadPc EXCEPT ![q] = "done"]
    /\ loadRes' = [loadRes EXCEPT ![q] = loadLog(loadId[q])]
    /\ UNCHANGED <<backendVars, loadId, loadAfterAck, uiVars, rejected, strVars, traceVars>>

(***************************************************************************)
(* Tracked strings.  A string is a sequence of characters; positions in    *)
(* the definitions below are the zero-based positions of the source.       *)
(***************************************************************************)
MaxStrLen == 3
MaxPatLen == 2
MaxReplLen == 3

Chars == {"a", "b"}
ReplChars == {"x", "$", "&", "0", "1"}

StringsOver(alphabet, n) == UNION {[1..k -> alphabet] : k \in 0..n}

\* the strings and separators of the documented scenarios
ScenarioStrings == {<<"f", "o", "o">>, <<"a", ",", "b", ",", "c">>}

ScenarioLits == {<<"o">>, <<",">>}

Strings == StringsOver(Chars, MaxStrLen) \cup ScenarioStrings

IntArgs == (0 - (MaxStrLen + 2))..(MaxStrLen + 2)

Undefined == [defined |-> FALSE, n |-> 0]

Arg(n) == [defined |-> TRUE, n |-> n]

Min(a, b) == IF a < b THEN a ELSE b

Max(a, b) == IF a > b THEN a ELSE b

\* characters start..end-1 of s, for 0 <= start, end <= Len(s)
Range(s, start, end) == IF start < end THEN SubSeq(s, start + 1, end) ELSE <<>>

\* a relative index of String.prototype.slice and substr, clamped to 0..len
Relative(k, len) == IF k < 0 THEN Max(len + k, 0) ELSE Min(k, len)

\* String.prototype.slice(from, to)
NativeSlice(s, from, to) ==
    LET len == Len(s)
        start == Relative(from, len)
        end == IF to.defined THEN Relative(to.n, len) ELSE len
    IN  Range(s, start, end)

\* String.prototype.substr(start, length)
NativeSubstr(s, start, length) ==
    LET size == Len(s)
        intStart == Relative(start, size)
        intLength == IF length.defined THEN Min(Max(length.n, 0), size) ELSE size
        intEnd == Min(intStart + intLength, size)
    IN  Range(s, intStart, intEnd)

\* String.prototype.substring(start, end)
NativeSubstring(s, start, end) ==
    LET a == Min(Max(start, 0), Len(s))
        b == Min(Max(end, 0), Len(s))
    IN  Range(s, Min(a, b), Max(a, b))

(***************************************************************************)
(* Origins and the value map                                               *)
(***************************************************************************)
\* oldValue.origin: the origin of the tracked string the handler is called on
oldValueOrigin(s) == [action |-> "oldValue", value |-> s]

\* untrackedArgument(arg): the origin of a plain string argument
untrackedArgument(arg) == [action |-> "Untracked Argument", value |-> arg]

\* the origin given to an untracked value returned by a replace function
untrackedMatchResult(v) == [action |-> "Untracked replace match result", value |-> v]

\* valueMap.appendString(str, origin, indexInOriginValue)
appendString(items, str, origin, indexInOriginValue) ==
    Append(items, [origin |-> origin, originOffset |-> indexInOriginValue, length |-> Len(str)])

(***************************************************************************)
(* slice                                                                   *)
(***************************************************************************)
\* the end index handed to the native slice
sliceTo(oldString, to) ==
    IF to.defined /\ to.n < 0 THEN Arg(Len(oldString) + to.n) ELSE to

\* the offset recorded for the slice's segment
sliceOffset(oldString, from) == from

sliceHandler(oldString, from, to) ==
    LET newVal == NativeSlice(oldString, from, sliceTo(oldString, to))
    IN  [status |-> "ok",
         value |-> newVal,
         valueMap |-> appendString(<<>>, newVal, oldValueOrigin(oldString),
                                   sliceOffset(oldString, from))]

(***************************************************************************)
(* substr                                                                  *)
(***************************************************************************)
substrStart(oldString, start) ==
    IF start < 0 THEN Len(oldString) + start ELSE start

substrLength(oldString, start, length) ==
    IF ~length.defined THEN Arg(Len(oldString) - start) ELSE length

substrHandler(oldString, start0, length0) ==
    LET start == substrStart(oldString, start0)
        length == substrLength(oldString, start, length0)
        newVal == NativeSubstr(oldString, start, length)
    IN  [status |-> "ok",
         value |-> newVal,
         valueMap |-> appendString(<<>>, newVal, oldValueOrigin(oldString), start)]

(***************************************************************************)
(* replace.  The pattern is a literal text, as a string or as a regular    *)
(* expression /lit/, /lit/g, /(lit)/ or /(lit)/g; the replacement is a     *)
(* string or a function that returns an untracked string.                  *)
(***************************************************************************)
Patterns == [lit : (StringsOver(Chars, MaxPatLen) \ {<<>>}) \cup ScenarioLits,
             global : BOOLEAN, groups : 0..1]

Replacements == [kind : {"string"}, str : StringsOver(ReplChars, MaxReplLen)]
                \cup [kind : {"function"}, str : StringsOver(Chars, 1)]

\* the first position >= i at which lit occurs in s, or -1
RECURSIVE IndexOfFrom(_, _, _)
IndexOfFrom(s, lit, i) ==
    IF i + Len(lit) > Len(s) THEN 0 - 1
    ELSE IF Range(s, i, i + Len(lit)) = lit THEN i
    ELSE IndexOfFrom(s, lit, i + 1)

\* every occurrence replaced, whether or not the pattern is global
RECURSIVE MatchOffsetsAll(_, _, _)
MatchOffsetsAll(s, pat, i) ==
    LET off == IndexOfFrom(s, pat.lit, i)
    IN  IF off < 0 THEN <<>>
        ELSE <<off>> \o MatchOffsetsAll(s, pat, off + Len(pat.lit))

\* the offsets at which the native replace calls its callback
RECURSIVE MatchOffsets(_, _, _)
MatchOffsets(s, pat, i) ==
    LET off == IndexOfFrom(s, pat.lit, i)
    IN  IF off < 0 THEN <<>>
        ELSE IF pat.global THEN <<off>> \o MatchOffsets(s, pat, off + Len(pat.lit))
        ELSE <<off>>

\* the submatches the callback receives: one per group, each the whole match
submatchesOf(pat, match) == [g \in 1..pat.groups |-> match]

\* countGroupsInRegExp(args[0])
countGroupsInRegExp(pat) == pat.groups + 1

IsDigit(c) == c \in {"0", "1"}

DigitVal(c) == IF c = "1" THEN 1 ELSE 0

\* what the handler puts for $n
dollarNumber(pat, match, submatchIndex, dollarSubmatch) ==
    IF submatchIndex >= 1 /\ submatchIndex <= pat.groups
    THEN submatchesOf(pat, match)[submatchIndex]
    ELSE IF submatchIndex < countGroupsInRegExp(pat)
         THEN <<>>
         ELSE <<"$">> \o dollarSubmatch

\* value.replace(/\$([0-9]{1,2}|[$`&'])/g, ...) from position i (one-based) on
RECURSIVE expandDollars(_, _, _, _)
expandDollars(value, i, pat, match) ==
    IF i > Len(value) THEN [threw |-> FALSE, value |-> <<>>]
    ELSE IF value[i] = "$" /\ i < Len(value) /\ IsDigit(value[i + 1])
    THEN LET two == i + 2 <= Len(value) /\ IsDigit(value[i + 2])
             dollarSubmatch == IF two THEN SubSeq(value, i + 1, i + 2)
                               ELSE SubSeq(value, i + 1, i + 1)
             submatchIndex == IF two THEN 10 * DigitVal(value[i + 1]) + DigitVal(value[i + 2])
                              ELSE DigitVal(value[i + 1])
             rest == expandDollars(value, i + 1 + Len(dollarSubmatch), pat, match)
         IN  [threw |-> rest.threw,
              value |-> dollarNumber(pat, match, submatchIndex, dollarSubmatch) \o rest.value]
    ELSE IF value[i] = "$" /\ i < Len(value) /\ value[i + 1] \in {"$", "`", "&", "'"}
    THEN IF value[i + 1] = "&"
         THEN LET rest == expandDollars(value, i + 2, pat, match)
              IN  [threw |-> rest.threw, value |-> match \o rest.value]
         ELSE [threw |-> TRUE, value |-> <<>>]
    ELSE LET rest == expandDollars(value, i + 1, pat, match)
         IN  [threw |-> rest.threw, value |-> <<value[i]>> \o rest.value]

\* the replacement attributed to the matched text
replaceWithOfMatch(pat, repl, match) ==
    IF repl.kind = "string"
    THEN LET e == expandDollars(repl.str, 1, pat, match)
         IN  [threw |-> e.threw, value |-> e.value, origin |-> untrackedArgument(match)]
    ELSE [threw |-> FALSE, value |-> repl.str, origin |-> untrackedArgument(match)]

\* replaceWith for one match
replaceWithOf(pat, repl, match) ==
    IF repl.kind = "string"
    THEN LET e == expandDollars(repl.str, 1, pat, match)
         IN  [threw |-> e.threw, value |-> e.value, origin |-> untrackedArgument(repl.str)]
    ELSE [threw |-> FALSE, value |-> repl.str, origin |-> untrackedMatchResult(repl.str)]

\* the callback of oldString.replace for the match at offset: st carries the
\* handler's valueMap and inputMappedSoFar, and the native replace's output
\* so far (out) and the end of its previous match (pos)
replaceCallback(st, oldString, pat, repl, offset) ==
    LET match == pat.lit
        mappedLen == Len(st.inputMappedSoFar)
        inputBeforeToKeep == NativeSubstring(oldString, mappedLen, offset)
        replaceWith == replaceWithOf(pat, repl, match)
        items1 == appendString(st.items, inputBeforeToKeep, oldValueOrigin(oldString), mappedLen)
        items2 == appendString(items1, replaceWith.value, replaceWith.origin, 0)
    IN  IF st.threw \/ replaceWith.threw
        THEN [st EXCEPT !.threw = TRUE]
        ELSE [threw |-> FALSE,
              items |-> items2,
              inputMappedSoFar |-> st.inputMappedSoFar \o inputBeforeToKeep \o match,
              out |-> st.out \o Range(oldString, st.pos, offset) \o replaceWith.value,
              pos |-> offset + Len(match)]

RECURSIVE replaceMatches(_, _, _, _, _, _)
replaceMatches(st, oldString, pat, repl, offsets, k) ==
    IF k > Len(offsets) THEN st
    ELSE replaceMatches(replaceCallback(st, oldString, pat, repl, offsets[k]),
                        oldString, pat, repl, offsets, k + 1)

\* the text after the last match left out of the value map
replaceTailDropped(oldString, inputMappedSoFar) == <<>>

\* the text after the last match, appended when the native replace returned
replaceTail(oldString, inputMappedSoFar) ==
    NativeSubstring(oldString, Len(inputMappedSoFar), Len(oldString))

replaceHandler(oldString, pat, repl) ==
    LET st0 == [threw |-> FALSE, items |-> <<>>, inputMappedSoFar |-> <<>>,
                out |-> <<>>, pos |-> 0]
        st == replaceMatches(st0, oldString, pat, repl, MatchOffsets(oldString, pat, 0), 1)
    IN  IF st.threw
        THEN [status |-> "threw", value |-> <<>>, valueMap |-> <<>>]
        ELSE [status |-> "ok",
              value |-> st.out \o Range(oldString, st.pos, Len(oldString)),
              valueMap |-> appendString(st.items, replaceTail(oldString, st.inputMappedSoFar),
                                        oldValueOrigin(oldString), Len(st.inputMappedSoFar))]

(***************************************************************************)
(* split without a limit.  The separator is a literal text, as a string or *)
(* as a regular expression /lit/ or /(lit)/.                               *)
(***************************************************************************)
Separators ==
    {sep \in [lit : (StringsOver(Chars, MaxPatLen) \ {<<>>}) \cup ScenarioLits,
              regexp : BOOLEAN, groups : 0..1] : ~sep.regexp => sep.groups = 0}

\* the separator as a pattern that matches at every occurrence
globalClone(separator) == [lit |-> separator.lit, global |-> TRUE, groups |-> separator.groups]

\* String.prototype.split(separator): the text between the occurrences of
\* the separator, each but the last followed by the separator's captures
RECURSIVE NativeSplit(_, _, _)
NativeSplit(s, separator, i) ==
    LET off == IndexOfFrom(s, separator.lit, i)
    IN  IF off < 0 THEN <<Range(s, i, Len(s))>>
        ELSE <<Range(s, i, off)>>
             \o [g \in 1..separator.groups |-> separator.lit]
             \o NativeSplit(s, separator, off + Len(separator.lit))

\* String.prototype.match with a global regular expression: every match,
\* or null when there is none
NativeMatchAll(s, regExp) ==
    LET offs == MatchOffsets(s, regExp, 0)
    IN  [isNull |-> offs = <<>>, matches |-> [k \in 1..Len(offs) |-> regExp.lit]]

\* the separators array of the handler
separatorsOf(oldString, separator, res) ==
    IF ~separator.regexp
    THEN [isNull |-> FALSE, matches |-> [k \in 1..(Len(res) - 1) |-> separator.lit]]
    ELSE NativeMatchAll(oldString, globalClone(separator))

\* currentCharIndex when res.forEach reaches the fragment at (one-based) k
RECURSIVE currentCharIndex(_, _, _)
currentCharIndex(res, separators, k) ==
    IF k = 1 THEN 0
    ELSE currentCharIndex(res, separators, k - 1) + Len(res[k - 1])
         + (IF k - 1 <= Len(separators) THEN Len(separators[k - 1]) ELSE 0)

splitHandler(oldString, separator) ==
    LET res == NativeSplit(oldString, separator, 0)
        separators == separatorsOf(oldString, separator, res)
    IN  IF separators.isNull
        THEN [status |-> "threw", value |-> <<>>, valueMap |-> <<>>, parts |-> <<>>]
        ELSE [status |-> "ok", value |-> <<>>, valueMap |-> <<>>,
              parts |-> [k \in 1..Len(res) |->
                            [value |-> res[k],
                             inputValuesCharacterIndex |->
                                 currentCharIndex(res, separators.matches, k)]]]

(***************************************************************************)
(* Tracked string objects.  A value is a plain string, a plain non-string  *)
(* (a number), or a tracked string object holding a value.                 *)
(***************************************************************************)
MaxDepth == 2

PlainString(str) == [isStringTraceString |-> FALSE, type |-> "string", str |-> str]

PlainNumber == [isStringTraceString |-> FALSE, type |-> "number", str |-> <<>>]

\* a tracked string object holding v
TraceString(v) == [isStringTraceString |-> TRUE, type |-> "object", value |-> v]

PlainStrings == {PlainString(str) : str \in StringsOver(Chars, 1)}

RECURSIVE ValuesUpTo(_, _)
ValuesUpTo(plain, depth) ==
    IF depth = 0 THEN plain
    ELSE plain \cup {TraceString(v) : v \in ValuesUpTo(plain, depth - 1)}

\* the values handed to makeTraceObject
Values == ValuesUpTo(PlainStrings \cup {PlainNumber}, MaxDepth)

\* the values handed to the constructor: strings, plain or tracked
StringValues == ValuesUpTo(PlainStrings, MaxDepth)

\* the unwrapping done once, with an if in place of the while
unwrapOnce(value) == IF value.isStringTraceString THEN value.value ELSE value

\* while (value.isStringTraceString) value = value.value
RECURSIVE unwrap(_)
unwrap(value) == IF value.isStringTraceString THEN unwrap(value.value) ELSE value

\* new FromJSString(options)
FromJSString(options) == [origin |-> options.origin, value |-> unwrap(options.value)]

\* stringTraceUseValue(value): the plain value of a tracked string
stringTraceUseValue(value) == IF value.isStringTraceString THEN value.value ELSE value

makeTraceObject(options) ==
    IF options.value.type # "string"
    THEN [status |-> "raw", made |-> options.value]
    ELSE IF options.origin = "undefined"
    THEN [status |-> "threw", made |-> options.value]
    ELSE [status |-> "object",
          made |-> FromJSString([value |-> stringTraceUseValue(options.value),
                                 origin |-> options.origin])]

OriginArgs == {"undefined", "origin"}

MakeTraceObject(options) ==
    /\ call.op = "none"
    /\ call' = [op |-> "makeTraceObject", options |-> options]
    /\ result' = makeTraceObject(options)
    /\ UNCHANGED <<backendVars, loadVars, uiVars, rejected, traceVars, matchLoop>>

NewFromJSString(options) ==
    /\ call.op = "none"
    /\ call' = [op |-> "FromJSString", options |-> options]
    /\ result' = [status |-> "object", made |-> FromJSString(options)]
    /\ UNCHANGED <<backendVars, loadVars, uiVars, rejected, traceVars, matchLoop>>

(***************************************************************************)
(* Calls of the handlers on a tracked string                               *)
(***************************************************************************)
NoCall == [op |-> "none", str |-> <<>>, from |-> 0, to |-> Undefined,
           pat |-> [lit |-> <<>>, global |-> FALSE, groups |-> 0],
           repl |-> [kind |-> "string", str |-> <<>>]]

NoResult == [status |-> "none", value |-> <<>>, valueMap |-> <<>>]

Slice(s, from, to) ==
    /\ call.op = "none"
    /\ call' = [NoCall EXCEPT !.op = "slice", !.str = s, !.from = from, !.to = to]
    /\ result' = sliceHandler(s, from, to)
    /\ UNCHANGED <<backendVars, loadVars, uiVars, rejected, traceVars, matchLoop>>

Substr(s, start, length) ==
    /\ call.op = "none"
    /\ call' = [NoCall EXCEPT !.op = "substr", !.str = s, !.from = start, !.to = length]
    /\ result' = substrHandler(s, start, length)
    /\ UNCHANGED <<backendVars, loadVars, uiVars, rejected, traceVars, matchLoop>>

Replace(s, pat, repl) ==
    /\ call.op = "none"
    /\ call' = [NoCall EXCEPT !.op = "replace", !.str = s, !.pat = pat, !.repl = repl]
    /\ result' = replaceHandler(s, pat, repl)
    /\ UNCHANGED <<backendVars, loadVars, uiVars, rejected, traceVars, matchLoop>>

Split(s, separator) ==
    /\ call.op = "none"
    /\ call' = [NoCall EXCEPT !.op = "split", !.str = s,
                              !.pat = [lit |-> separator.lit, global |-> separator.regexp,
                                       groups |-> separator.groups]]
    /\ result' = splitHandler(s, separator)
    /\ UNCHANGED <<backendVars, loadVars, uiVars, rejected, traceVars, matchLoop>>

(***************************************************************************)
(* match.  With a global regular expression the handler calls exec until   *)
(* it returns null and collects match[0]; exec starts at the expression's  *)
(* lastIndex and leaves lastIndex at the end of the match it found.        *)
(***************************************************************************)
MatchPatterns == Patterns \cup [lit : {<<>>}, global : BOOLEAN, groups : {0}]

MaxMatches == MaxStrLen + 3

NoLoop == [lastIndex |-> 0, matches |-> <<>>]

\* regExp.exec(this) at lastIndex: the offset of the match, or -1
exec(s, regExp, lastIndex) == IndexOfFrom(s, regExp.lit, lastIndex)

\* what exec returns: null, or the match followed by its captures
execResult(s, regExp, lastIndex) ==
    IF exec(s, regExp, lastIndex) < 0
    THEN [status |-> "ok", value |-> <<>>, valueMap |-> <<>>, isNull |-> TRUE, matches |-> <<>>]
    ELSE [status |-> "ok", value |-> <<>>, valueMap |-> <<>>, isNull |-> FALSE,
          matches |-> <<regExp.lit>> \o submatchesOf(regExp, regExp.lit)]

Running == [status |-> "running", value |-> <<>>, valueMap |-> <<>>]

\* the handler is entered
Match(s, regExp) ==
    /\ call.op = "none"
    /\ call' = [NoCall EXCEPT !.op = "match", !.str = s, !.pat = regExp]
    /\ matchLoop' = NoLoop
    /\ result' = IF regExp.global THEN Running ELSE execResult(s, regExp, 0)
    /\ UNCHANGED <<backendVars, loadVars, uiVars, rejected, traceVars>>

\* one evaluation of the while condition, and the loop's body or its exit
MatchIteration ==
    /\ call.op = "match"
    /\ result.status = "running"
    /\ Len(matchLoop.matches) < MaxMatches
    /\ LET off == exec(call.str, call.pat, matchLoop.lastIndex)
       IN  IF off < 0
           THEN /\ matchLoop' = [matchLoop EXCEPT !.lastIndex = 0]
                /\ result' = [status |-> "ok", value |-> <<>>, valueMap |-> <<>>,
                              isNull |-> matchLoop.matches = <<>>,
                              matches |-> matchLoop.matches]
           ELSE /\ matchLoop' = [lastIndex |-> off + Len(call.pat.lit),
                                 matches |-> Append(matchLoop.matches, call.pat.lit)]
                /\ UNCHANGED result
    /\ UNCHANGED call
    /\ UNCHANGED <<backendVars, loadVars, uiVars, rejected, traceVars>>

\* the handler has returned; the tracked string can be called again
Return ==
    /\ call.op # "none"
    /\ result.status # "running"
    /\ call' = NoCall
    /\ result' = NoResult
    /\ matchLoop' = NoLoop
    /\ UNCHANGED <<backendVars, loadVars, uiVars, rejected, traceVars>>

StrInit ==
    /\ call = NoCall
    /\ result = NoResult
    /\ matchLoop = NoLoop

Init == BackendInit /\ LoadInit /\ UiInit /\ TraceInit /\ StrInit

OptArgs == {Arg(n) : n \in IntArgs} \cup {Undefined}

\* a handler is called only when no call is under way: the test is made
\* before the arguments are chosen
StrNext ==
    \/ call.op = "none" /\ \E s \in Strings, from \in IntArgs, to \in OptArgs :
                               Slice(s, from, to)
    \/ call.op = "none" /\ \E s \in Strings, start \in IntArgs, length \in OptArgs :
                               Substr(s, start, length)
    \/ call.op = "none" /\ \E s \in Strings, pat \in Patterns, repl \in Replacements :
                               Replace(s, pat, repl)
    \/ call.op = "none" /\ \E s \in Strings, separator \in Separators : Split(s, separator)
    \/ call.op = "none" /\ \E v \in Values, o \in OriginArgs :
                               MakeTraceObject([value |-> v, origin |-> o])
    \/ call.op = "none" /\ \E v \in StringValues :
                               NewFromJSString([value |-> v, origin |-> "origin"])
    \/ call.op = "none" /\ \E s \in Strings, regExp \in MatchPatterns : Match(s, regExp)
    \/ MatchIteration
    \/ Return

StrSpec == Init /\ [][StrNext]_vars

(***************************************************************************)
(* Specifications of the backend                                           *)
(***************************************************************************)
Scripts == {{}, {"s"}}

\* /storeLogs requests of a writer that holds the token and sends no eval
\* scripts, and the store's write completions
WriterNext ==
    \/ \E logs \in Batches : StoreLogs(TRUE, logs, {})
    \/ \E b \in writing : WriteComplete(b)

Next ==
    \/ WriterNext
    \/ \E r \in Requests, id \in Ids : Traverse(r, id)
    \/ \E r \in Requests : tryTraverse(r)
    \/ \E r \in Requests : TimerFires(r)
    \/ \E r \in Requests : traverse(r)
    \/ \E r \in Requests : finishRequest(r)

Spec == Init /\ [][Next]_vars

LoadNext ==
    \/ ProxyCreated
    \/ \E tokenOk \in BOOLEAN, logs \in Batches, scripts \in Scripts :
          StoreLogs(tokenOk, logs, scripts)
    \/ \E b \in writing : WriteComplete(b)
    \/ \E q \in Loads, id \in Ids : LoadLogRequest(q, id)
    \/ \E q \in Loads : LoadLogTimer(q)

LoadSpec == Init /\ [][LoadNext]_vars

InspectNext ==
    \/ ProxyCreated
    \/ \E tokenOk \in BOOLEAN, logs \in Batches, scripts \in Scripts :
          StoreLogs(tokenOk, logs, scripts)
    \/ \E b \in writing : WriteComplete(b)
    \/ \E tokenOk \in BOOLEAN, dom \in Doms, fromDemo \in BOOLEAN :
          InspectDOM(tokenOk, dom, fromDemo)
    \/ \E tokenOk \in BOOLEAN, id \in Ids, fromDemo \in BOOLEAN :
          Inspect(tokenOk, id, fromDemo)

InspectSpec == Init /\ [][InspectNext]_vars

TraceNext ==
    \/ enableTracing
    \/ disableTracing
    \/ \E op \in Ops : \E arg \in ArgsOf(op) : CallOp(op, arg)

TraceSpec == Init /\ [][TraceNext]_vars

(***************************************************************************)
(* Properties of /traverse (Spec)                                          *)
(***************************************************************************)
TimedOut(r) == pc[r] = "done" /\ cur[r] = 0

TraversalFailed(r) == pc[r] = "done" /\ cur[r] # 0 /\ ~travOk[r]

TraversalSucceeded(r) == pc[r] = "done" /\ cur[r] # 0 /\ travOk[r]

BoundedPoll ==
    \A r \in Requests :
        /\ checks[r] <= 10
        /\ checks[r] <= previousAttempts[r] + 1
        /\ waited[r] = 250 * previousAttempts[r]
        /\ pc[r] = "timer" => waited[r] <= 2000
        /\ TimedOut(r) => /\ checks[r] = 10
                          /\ waited[r] > 2000
                          /\ status[r] = 500
                          /\ responses[r] = <<ErrStillSaving>>

NoRetryAfterAnswer ==
    \A r \in Requests :
        pc[r] = "done" => pc'[r] = "done" /\ checks'[r] = checks[r] /\ waited'[r] = waited[r]

\* C1: a /traverse request whose record never becomes visible runs at most
\* 10 existence checks (attempts 0..9), 250 ms apart; at the check where the
\* accumulated wait exceeds 2000 ms it answers with the error, and it
\* schedules no retry afterwards.
C1_BoundedPoll == []BoundedPoll /\ [][NoRetryAfterAnswer]_vars

C1_Witness == \E r \in Requests : TimedOut(r) /\ checks[r] = 10 /\ waited[r] = 2250

\* C2: every /traverse request ends with exactly one response, either the
\* steps or an error payload, never two responses, also when the traversal
\* fails after the existence check succeeded.
C2_ExactlyOneResponse ==
    \A r \in Requests :
        /\ Len(responses[r]) <= 1
        /\ pc[r] = "done" => Len(responses[r]) = 1

\* C3: when an intermediate record is missing the caller receives the steps
\* resolved so far together with an error marker.
C3_PartialStepsWithMarker ==
    \A r \in Requests :
        TraversalFailed(r) =>
            /\ responses[r][1].err # ""
            /\ responses[r][1].hasSteps
            /\ responses[r][1].steps = steps[r]

\* C4: the answer of a request that exhausted its poll differs from the
\* answer of a request whose start record was visible and whose traversal
\* failed on a missing record.
C4_DistinctErrors ==
    \A r1, r2 \in Requests :
        TimedOut(r1) /\ TraversalFailed(r2) => responses[r1][1] # responses[r2][1]

C4_Witness ==
    \E r1, r2 \in Requests : TimedOut(r1) /\ TraversalFailed(r2) /\ steps[r2] # <<>>

(***************************************************************************)
(* Properties of /storeLogs and /loadLog (LoadSpec)                        *)
(***************************************************************************)
\* C5: once a /storeLogs batch has been acknowledged, any two later lookups
\* of an id of that batch return identical records, neither of them
\* NotFound, for every interleaving of the write completion with the reads.
C5_IdempotentAfterAck ==
    \A q1, q2 \in Loads :
        ( /\ loadPc[q1] = "done" /\ loadPc[q2] = "done"
          /\ loadId[q1] = loadId[q2]
          /\ loadAfterAck[q1] /\ loadAfterAck[q2] )
        => loadRes[q1] = loadRes[q2] /\ loadRes[q1] # NotFound

(***************************************************************************)
(* Properties of the value maps (StrSpec)                                  *)
(***************************************************************************)
RECURSIVE SumLengths(_, _)
SumLengths(valueMap, k) ==
    IF k = 0 THEN 0 ELSE SumLengths(valueMap, k - 1) + valueMap[k].length

\* the output position at which segment k starts when the segments are laid
\* out one after the other
SegmentStart(valueMap, k) == SumLengths(valueMap, k - 1)

\* the characters at positions offset .. offset+n-1 of v that exist
PointsTo(v, offset, n) ==
    LET idx == {i \in offset..(offset + n - 1) : i >= 0 /\ i < Len(v)}
        lo == IF idx = {} THEN 0 ELSE CHOOSE i \in idx : \A j \in idx : i <= j
    IN  Range(v, lo, lo + Cardinality(idx))

RECURSIVE Reconstruct(_, _)
Reconstruct(valueMap, k) ==
    IF k = 0 THEN <<>>
    ELSE Reconstruct(valueMap, k - 1)
         \o PointsTo(valueMap[k].origin.value, valueMap[k].originOffset, valueMap[k].length)

\* C6: in every value map built by replace, slice and substr the segments
\* follow each other without gap or overlap and their lengths add up to the
\* length of the resulting value.
C6_SegmentsPartitionValue ==
    result.status = "ok" =>
        /\ \A k \in 1..Len(result.valueMap) :
              /\ result.valueMap[k].length >= 0
              /\ SegmentStart(result.valueMap, k) + result.valueMap[k].length <= Len(result.value)
        /\ SumLengths(result.valueMap, Len(result.valueMap)) = Len(result.value)

C6_Witness ==
    /\ call.op = "replace"
    /\ result.status = "ok"
    /\ Len(result.valueMap) = 5
    /\ result.valueMap[5].length > 0
    /\ Len(result.value) # Len(call.str)

\* C7: concatenating, in order, the substrings that the segments point to
\* in their source origins' values gives the operation's output value.
C7_SegmentsReproduceValue ==
    result.status = "ok" =>
        Reconstruct(result.valueMap, Len(result.valueMap)) = result.value

\* C8: slice records exactly one segment, attributed to the original
\* string, whose offset is the non-negative start of the result in the
\* original: character i of the result is character offset+i of the original.
C8_SliceSegment ==
    call.op = "slice" =>
        /\ Len(result.valueMap) = 1
        /\ result.valueMap[1].origin = oldValueOrigin(call.str)
        /\ result.valueMap[1].length = Len(result.value)
        /\ result.value # <<>> => result.valueMap[1].originOffset >= 0
        /\ PointsTo(call.str, result.valueMap[1].originOffset, Len(result.value)) = result.value

\* C9: the tracked slice returns what the standard slice returns for the
\* same string and arguments.
C9_SliceValue ==
    call.op = "slice" => result.value = NativeSlice(call.str, call.from, call.to)

\* C10: the tracked substr returns what the standard substr returns, and its
\* one segment's offset is the non-negative index in the original string at
\* which the result begins.
C10_Substr ==
    call.op = "substr" =>
        /\ result.value = NativeSubstr(call.str, call.from, call.to)
        /\ Len(result.valueMap) = 1
        /\ result.value # <<>> => result.valueMap[1].originOffset >= 0
        /\ PointsTo(call.str, result.valueMap[1].originOffset, Len(result.value)) = result.value

(***************************************************************************)
(* Properties of replace (StrSpec)                                         *)
(***************************************************************************)
FooReplace ==
    /\ call.op = "replace"
    /\ call.str = <<"f", "o", "o">>
    /\ call.pat = [lit |-> <<"o">>, global |-> FALSE, groups |-> 0]
    /\ call.repl = [kind |-> "string", str |-> <<"0">>]

Segment(origin, originOffset, length) ==
    [origin |-> origin, originOffset |-> originOffset, length |-> length]

\* C11 as stated: "foo".replace("o", "0") gives "f00" and the segments "f"
\* (offset 0, length 1) of the original string and two "0" segments of the
\* replacement's origin.
C11_FooGivesF00 ==
    FooReplace =>
        /\ result.value = <<"f", "0", "0">>
        /\ result.valueMap = << Segment(oldValueOrigin(call.str), 0, 1),
                                Segment(untrackedArgument(<<"0">>), 0, 1),
                                Segment(untrackedArgument(<<"0">>), 0, 1) >>

\* C11 as amended: "foo".replace("o", "0") replaces the first "o" only: it
\* gives "f0o" and the segments "f" (offset 0, length 1) of the original
\* string, one "0" segment (offset 0, length 1) of the replacement's origin,
\* and the unchanged "o" (offset 2, length 1) of the original string.
C11_FooGivesF0o ==
    FooReplace =>
        /\ result.status = "ok"
        /\ result.value = <<"f", "0", "o">>
        /\ result.valueMap = << Segment(oldValueOrigin(call.str), 0, 1),
                                Segment(untrackedArgument(<<"0">>), 0, 1),
                                Segment(oldValueOrigin(call.str), 2, 1) >>

C11_Witness == FooReplace /\ Len(result.valueMap) = 3

\* where the k-th match of the call begins and ends in the original string
MatchStart(k) == MatchOffsets(call.str, call.pat, 0)[k]

MatchEnd(k) == IF k = 0 THEN 0 ELSE MatchStart(k) + Len(call.pat.lit)

ReplacementOrigin ==
    IF call.repl.kind = "string" THEN untrackedArgument(call.repl.str)
    ELSE untrackedMatchResult(call.repl.str)

\* C12: a replace call's value map is, for each match in order, a segment
\* for the unchanged span before it, attributed to the original string at
\* the span's position, then a segment attributed to the replacement's
\* origin at offset 0; and last a segment for the text after the last match,
\* attributed to the original string at its position.
C12_ReplaceInterleaving ==
    (call.op = "replace" /\ result.status = "ok") =>
        LET n == Len(MatchOffsets(call.str, call.pat, 0))
            vm == result.valueMap
        IN  /\ Len(vm) = 2 * n + 1
            /\ \A k \in 1..n :
                  /\ vm[2 * k - 1].origin = oldValueOrigin(call.str)
                  /\ vm[2 * k - 1].originOffset = MatchEnd(k - 1)
                  /\ vm[2 * k - 1].length = MatchStart(k) - MatchEnd(k - 1)
                  /\ vm[2 * k].origin = ReplacementOrigin
                  /\ vm[2 * k].originOffset = 0
            /\ vm[2 * n + 1] = Segment(oldValueOrigin(call.str), MatchEnd(n),
                                       Len(call.str) - MatchEnd(n))

C12_Witness ==
    /\ call.op = "replace"
    /\ result.status = "ok"
    /\ call.pat.global
    /\ Len(MatchOffsets(call.str, call.pat, 0)) = 2
    /\ MatchStart(1) > 0
    /\ MatchStart(2) > MatchEnd(1)

(***************************************************************************)
(* Properties of split (StrSpec)                                           *)
(***************************************************************************)
\* C13: every fragment of a split without a limit, for a string or a
\* regular-expression separator, is recorded with a character index at which
\* the original string reads that fragment; "a,b,c".split(",") gives "a",
\* "b", "c" at 0, 2, 4.
C13_SplitIndexes ==
    (call.op = "split" /\ result.status = "ok") =>
        /\ \A k \in 1..Len(result.parts) :
              /\ result.parts[k].inputValuesCharacterIndex >= 0
              /\ PointsTo(call.str, result.parts[k].inputValuesCharacterIndex,
                          Len(result.parts[k].value)) = result.parts[k].value
        /\ (call.str = <<"a", ",", "b", ",", "c">> /\ call.pat.lit = <<",">> /\ call.pat.groups = 0)
              => result.parts = << [value |-> <<"a">>, inputValuesCharacterIndex |-> 0],
                                   [value |-> <<"b">>, inputValuesCharacterIndex |-> 2],
                                   [value |-> <<"c">>, inputValuesCharacterIndex |-> 4] >>

(***************************************************************************)
(* Properties of tracked string objects (StrSpec)                          *)
(***************************************************************************)
RECURSIVE Wrapped(_, _)
Wrapped(v, n) == IF n = 0 THEN v ELSE TraceString(Wrapped(v, n - 1))

\* C14: a constructed tracked string object holds a plain string, never a
\* tracked string: constructed from a value tracked to any depth, it holds
\* the innermost plain value.
C14_HoldsPlainString ==
    result.status = "object" =>
        /\ ~result.made.value.isStringTraceString
        /\ result.made.value.type = "string"
        /\ \E n \in 0..MaxDepth : call.options.value = Wrapped(result.made.value, n)

C14_Witness ==
    /\ call.op = "FromJSString"
    /\ call.options.value.isStringTraceString
    /\ call.options.value.value.isStringTraceString
    /\ result.made.value = PlainString(<<"a">>)

\* C15: constructing a tracked value whose value is not a string is rejected
\* with an error; it returns neither an object nor the raw value.
C15_NonStringRejected ==
    (call.op = "makeTraceObject" /\ call.options.value = PlainNumber) =>
        result.status = "threw"

(***************************************************************************)
(* Properties of concurrent /traverse requests (Spec)                      *)
(***************************************************************************)
\* everything a /traverse request holds: its closure's variables, its
\* traversal and its response
Local(r) == <<pc[r], logId[r], previousAttempts[r], checks[r], waited[r], cur[r],
              steps[r], travOk[r], status[r], responses[r]>>

NoSharedState ==
    \A r \in Requests :
        Local(r)' # Local(r) =>
            /\ \A other \in Requests \ {r} : Local(other)' = Local(other)
            /\ UNCHANGED <<stored, writing, acked>>

RetriesAsAlone ==
    \A r \in Requests :
        /\ pc[r] \in {"timer", "traverse", "traversed", "done"} => checks[r] = previousAttempts[r] + 1
        /\ pc[r] \in {"idle", "hasLog"} => checks[r] = previousAttempts[r]

\* C16: concurrent /traverse requests share no mutable state: a step of one
\* request changes no other request and not the store, and each request's
\* retry count is the count of its own checks, under every interleaving.
C16_NoSharedState == []RetriesAsAlone /\ [][NoSharedState]_vars

C16_Witness ==
    \E r1, r2 \in Requests :
        /\ pc[r1] = "timer" /\ previousAttempts[r1] = 3
        /\ pc[r2] = "traverse" /\ previousAttempts[r2] = 1

AllRecords == stored \cup UNION writing

\* the number of records on the chain of inputs that starts at id
RECURSIVE ChainDepth(_)
ChainDepth(id) ==
    IF id = 0 \/ id \notin IdsOf(AllRecords) THEN 0
    ELSE 1 + ChainDepth((CHOOSE rec \in AllRecords : rec.id = id).input)

StepsWithinDepth ==
    \A r \in Requests : Len(steps[r]) <= ChainDepth(logId[r])

\* every lookup of a traversal emits one more step or ends the traversal
TraversalProgress ==
    \A r \in Requests :
        (pc[r] = "traverse" /\ Local(r)' # Local(r)) =>
            \/ pc'[r] = "traversed"
            \/ Len(steps'[r]) = Len(steps[r]) + 1 /\ cur'[r] < cur[r]

\* C17: every traversal terminates, and it produces at most as many steps
\* as the start record's dependency chain is deep, a record referencing only
\* records created before it.
C17_TraversalBounded == []StepsWithinDepth /\ [][TraversalProgress]_vars

C17_Witness ==
    \E r \in Requests : TraversalSucceeded(r) /\ Len(steps[r]) = 2 /\ ChainDepth(logId[r]) = 2

Started(r) == cur[r] # 0

StartedOnVisibleRecord == \A r \in Requests : Started(r) => hasLog(logId[r])

StartOnceAfterTrueCheck ==
    \A r \in Requests :
        /\ (~Started(r) /\ Started(r)') =>
              /\ pc[r] = "hasLog"
              /\ hasLog(logId[r])
              /\ checks'[r] = checks[r] + 1
              /\ cur'[r] = logId[r]
        /\ Started(r) => Started(r)' /\ pc'[r] \in {"traverse", "traversed", "done"}
        /\ pc'[r] = "traverse" => pc[r] \in {"hasLog", "traverse"}

\* C18: within one /traverse request the traversal is started at most once,
\* and only after an existence check of the requested id returned true.
C18_StartedOnceAfterCheck == []StartedOnVisibleRecord /\ [][StartOnceAfterTrueCheck]_vars

C18_Witness == \E r \in Requests : Started(r) /\ checks[r] = 3 /\ pc[r] = "done"

\* C19: a request whose record was visible at one of its existence checks
\* goes on to the traversal and answers with the steps, not with the
\* timeout error.
C19_VisibleGivesSteps ==
    \A r \in Requests :
        /\ (pc[r] = "done" /\ Started(r)) =>
              /\ responses[r][1] = StepsPayload(TRUE, steps[r])
              /\ status[r] = 200
        /\ TimedOut(r) => responses[r][1] = ErrStillSaving

(***************************************************************************)
(* Properties of the access token (InspectSpec)                            *)
(***************************************************************************)
\* no step that leaves verifyToken's last outcome a rejection adds a record
\* to the store (writing or written), acknowledges one, registers an eval
\* script, changes a selection or broadcasts
RejectedChangesNothing ==
    rejected' =>
        /\ AllRecords' = AllRecords
        /\ UNCHANGED <<acked, evalScripts>>
        /\ UNCHANGED <<domToInspect, logToInspect, isInspectingDemoApp>>
        /\ broadcasts' = broadcasts

\* C20: a request with an invalid access token changes no backend state:
\* a rejected /storeLogs stores no logs and registers no eval scripts, a
\* rejected POST /inspectDOM leaves the selected DOM as it is, a rejected
\* POST /inspect leaves the selected log id as it is, and none of them
\* broadcasts a message.
C20_InvalidTokenChangesNothing == [][RejectedChangesNothing]_vars

C20_Witness ==
    /\ rejected
    /\ domToInspect \in Doms
    /\ logToInspect # 0
    /\ broadcasts = 2
    /\ stored # {}
    /\ evalScripts # {}

(***************************************************************************)
(* Properties of /storeLogs and the proxy's creation (LoadSpec)            *)
(***************************************************************************)
\* a step that hands records to the log store is a /storeLogs request that
\* passed verifyToken
ValidStoreLogsAcked ==
    Sent' # Sent =>
        /\ storeLogsRes' = "ok"
        /\ (Sent' \ Sent) \subseteq acked'

\* C21: every /storeLogs request with a valid token is answered with ok,
\* whether it arrives before or after createProxy resolved, also when it
\* carries eval scripts.
C21_ValidTokenAcked == [][ValidStoreLogsAcked]_vars

(***************************************************************************)
(* Properties of enableTracing / disableTracing (TraceSpec)                *)
(***************************************************************************)
Native(op) == installed[op] = 0

\* C22: after a sequence of enableTracing and disableTracing calls that
\* ends with disableTracing, every operation enableTracing replaces is the
\* native operation again.
C22_DisableRestoresNatives ==
    last.op = "disableTracing" => \A op \in Ops : Native(op)

\* what a call records when it passes through one wrapper, as after the
\* first enableTracing
OneCallOrigins(op, arg) ==
    IF op = "Function"
    THEN wrapperOrigins("createElement", "") \o wrapperOrigins("appendChild", "")
         \o wrapperOrigins(op, arg)
    ELSE wrapperOrigins(op, arg)

\* C23: while tracing is enabled, after any number of enable/disable
\* cycles, a call of a patched operation records what one wrapper records;
\* one removeAttribute call records one origin.
C23_OneOriginPerCall ==
    (tracingEnabled /\ last.op \in Ops) =>
        /\ last.recorded = OneCallOrigins(last.op, last.arg)
        /\ last.op = "removeAttribute" => Len(last.recorded) = 1

Patched == \A op \in Ops : installed[op] > 0

FlagIffPatched ==
    /\ tracingEnabled => Patched
    /\ ~tracingEnabled => \A op \in Ops : Native(op)

RepeatedCallChangesNothing ==
    /\ (tracingEnabled /\ last'.op = "enableTracing") => UNCHANGED <<tracingEnabled, installed>>
    /\ (~tracingEnabled /\ last'.op = "disableTracing") => UNCHANGED <<tracingEnabled, installed>>

\* C24: enableTracing with tracing enabled and disableTracing with tracing
\* disabled change nothing, and tracingEnabled is true exactly when the
\* patches are installed.
C24_IdempotentFlagIffPatched == []FlagIffPatched /\ [][RepeatedCallChangesNothing]_vars

(***************************************************************************)
(* Properties of split with an absent separator (StrSpec)                  *)
(***************************************************************************)
SeparatorAbsent == call.op = "split" /\ IndexOfFrom(call.str, call.pat.lit, 0) < 0

\* C26: a tracked split without a limit whose separator, a string or a
\* regular expression, does not occur in the string does not fail: it
\* returns one fragment, the whole string, with recorded character index 0.
C26_AbsentSeparatorOneFragment ==
    SeparatorAbsent =>
        /\ result.status = "ok"
        /\ result.parts = << [value |-> call.str, inputValuesCharacterIndex |-> 0] >>

(***************************************************************************)
(* Properties of match with a global regular expression (StrSpec)          *)
(***************************************************************************)
\* String.prototype.match with a global regular expression: the offsets of
\* the matches; after an empty match the search goes on one position later
RECURSIVE NativeMatchOffsets(_, _, _)
NativeMatchOffsets(s, lit, i) ==
    LET off == IndexOfFrom(s, lit, i)
    IN  IF off < 0 THEN <<>>
        ELSE <<off>> \o NativeMatchOffsets(s, lit, IF lit = <<>> THEN off + 1 ELSE off + Len(lit))

GlobalMatch == call.op = "match" /\ call.pat.global

MatchReturnsAll ==
    (GlobalMatch /\ result.status = "ok") =>
        LET offs == NativeMatchOffsets(call.str, call.pat.lit, 0)
        IN  /\ result.isNull = (offs = <<>>)
            /\ result.matches = [k \in 1..Len(offs) |-> call.pat.lit]

\* a string of n characters has at most n + 1 matches
MatchBounded == GlobalMatch => Len(matchLoop.matches) <= Len(call.str) + 1

\* every pass of the loop that collects a match moves lastIndex forward
MatchAdvances ==
    (GlobalMatch /\ Len(matchLoop'.matches) > Len(matchLoop.matches)) =>
        matchLoop'.lastIndex > matchLoop.lastIndex

\* C25: the tracked match with a global regular expression terminates and
\* returns all matches, or null when there are none, also for a pattern
\* that can match the empty string.
C25_GlobalMatchTerminates == []MatchReturnsAll /\ []MatchBounded /\ [][MatchAdvances]_vars

====
